---- MODULE Spec2Model ----
(***************************************************************************)
(* Model of the terminal picker of juanrgon/worktrees (src/ui/picker.ts):  *)
(* pickWorktree, its static fallback prompt, and the live fuzzy picker     *)
(* runLivePicker with its keystroke handler onData.                        *)
(*                                                                         *)
(* Text is modelled as a sequence of one-character strings.  Control       *)
(* characters are written by name ("ESC", "CR", ...); each such string     *)
(* stands for ONE character of the input chunk.  Indices are 0-based as in  *)
(* the source; sequences are 1-based, so item i is filteredItems[i + 1].    *)
(***************************************************************************)
EXTENDS Integers, Sequences, FiniteSets, TLC

VARIABLES
    pc,                 \* "idle" | "active" | "fallback" | "done" | "threw"
    worktrees,          \* args.worktrees
    suggestions,        \* args.suggestions
    stdinIsTTY,         \* process.stdin.isTTY
    stdoutIsTTY,        \* process.stdout.isTTY
    hasSetRawMode,      \* typeof process.stdin.setRawMode === 'function'
    isRaw,              \* process.stdin.isRaw
    startRaw,           \* process.stdin.isRaw when pickWorktree was called
    originalRawMode,    \* runLivePicker: const originalRawMode
    cursorVisible,      \* terminal cursor visibility (\x1b[?25h / \x1b[?25l)
    listening,          \* onData is attached to stdin 'data'
    allItems,           \* args.items of runLivePicker
    searchQuery,        \* let searchQuery
    filteredItems,      \* let filteredItems
    selectionIndex,     \* let selectionIndex (0-based, -1 when empty)
    lastRenderLineCount,\* let lastRenderLineCount
    choiceList,         \* fallbackPickWorktree: choiceList handed to clack.select
    result,             \* value delivered to the caller of pickWorktree
    delivered,          \* number of results delivered (resolve / return)
    events,             \* ordered log of the stdin / cursor calls of the session
    lastChunk,          \* the chunk handled by the last onData call
    renders,            \* number of render() calls made by the last step
    erased,             \* lines erased by the last step's clearPreviousLines
    emitted,            \* lines written by the most recent render (0: none yet)
    frameLines,         \* frame lines on the screen: written and not erased
    drawn,              \* what the most recent render() drew, or NoFrame
    before,             \* searchQuery and filteredItems when the last chunk arrived
    dropped,            \* chunks that reached stdin with no listener attached
    failure,            \* where an injected terminal fault was raised, or "none"
    winTotal,           \* computeVisibleWindow: argument total
    winSelected,        \* computeVisibleWindow: argument selectedIndex
    winResult,          \* computeVisibleWindow: returned window, or NoWindow
    ghEnv,              \* what spawnSync('gh', ['--version']) would do now
    ghAvailabilityState,\* github.ts: const ghAvailabilityState
    ghProbes,           \* number of spawnSync('gh', ['--version']) calls made
    ghCalls,            \* number of isGhInstalled calls made
    ghReturned,         \* what each isGhInstalled call returned, in order
    ghFirst,            \* ghEnv at the first probe, or NoProbe
    ghCwd,              \* args.cwd of the last isGhInstalled call
    authoredFetched,    \* what gh pr list --author @me returns
    assignedFetched,    \* what gh pr list --assignee @me returns
    existingBranches,   \* args.existingBranches
    limit,              \* args.limit
    resolution          \* result of resolveWorktreeSuggestions, or NotCalled

vars == << pc, worktrees, suggestions, stdinIsTTY, stdoutIsTTY, hasSetRawMode,
           isRaw, originalRawMode, cursorVisible, listening, allItems,
           searchQuery, filteredItems, selectionIndex, lastRenderLineCount,
           choiceList, result, delivered, events, lastChunk, renders, erased,
           failure, startRaw, winTotal, winSelected, winResult, emitted,
           frameLines, drawn, before, dropped, ghEnv, ghAvailabilityState,
           ghProbes, ghCalls, ghReturned, ghFirst, ghCwd, authoredFetched,
           assignedFetched, existingBranches, limit, resolution >>

windowVars == << winTotal, winSelected, winResult >>

ghVars == << ghEnv, ghAvailabilityState, ghProbes, ghCalls, ghReturned,
             ghFirst, ghCwd >>

suggestVars == << authoredFetched, assignedFetched, existingBranches, limit,
                  resolution >>

inputVars == << worktrees, suggestions, stdinIsTTY, stdoutIsTTY, hasSetRawMode,
                startRaw, windowVars, ghVars, suggestVars >>

pickerVars == << pc, isRaw, originalRawMode, cursorVisible, listening, allItems,
                 searchQuery, filteredItems, selectionIndex, lastRenderLineCount,
                 choiceList, result, delivered, events, lastChunk, renders,
                 erased, failure, emitted, frameLines, drawn, before, dropped >>

-----------------------------------------------------------------------------
(* Bounds *)

\* longest query the model lets the user type
MaxQuery == 2

\* largest total handed to computeVisibleWindow on its own
MaxTotal == 26

\* most chunks the model lets reach stdin after the listener was removed
MaxDropped == 1

\* most isGhInstalled calls of one process
MaxGhCalls == 4

\* longest list of pull requests one gh pr list call returns
MaxPRs == 2

\* largest suggestion limit
MaxLimit == 3

-----------------------------------------------------------------------------
(* Characters *)

ETX == "ETX"   \* \u0003, Ctrl-C
ESC == "ESC"   \* \u001b
CR  == "CR"    \* \r
LF  == "LF"    \* \n
DEL == "DEL"   \* \x7f
BS  == "BS"    \* \u0008
TAB == "TAB"   \* \t, a control byte below ' '
EACUTE == "E'" \* a character above '~'

\* the characters c of the model with ' ' <= c <= '~'
Printable ==
    { " ", "#", "-", "/", "0", "1", "2", "3", "4", "5", "6", "7", "8", "9",
      "A", "B", "F", "O", "Z", "[", "~",
      "a", "b", "c", "d", "e", "f", "g", "h", "i", "j", "k", "l", "m", "n",
      "o", "p", "q", "r", "s", "t", "u", "v", "w", "x", "y", "z" }

IsPrintable(c) == c \in Printable

Undefined == << "<undefined>" >>
Null == [kind |-> "null"]
NoWindow == [start |-> -1, end |-> -1]

-----------------------------------------------------------------------------
(* Inputs: the worktree and suggestion lists a session may be started with *)

Str_main     == << "m", "a", "i", "n" >>
Str_featurex == << "f", "e", "a", "t", "u", "r", "e", "-", "x" >>
Str_fixy     == << "f", "i", "x", "-", "y" >>
Str_xf       == << "x", "f" >>
Str_fe       == << "f", "e" >>

Wt(branch) == [branch |-> branch, path |-> << "/" >> \o branch]

Sg(branch, number, title, url) ==
    [branch |-> branch, number |-> number, title |-> title, url |-> url]

\* thirteen worktrees, one more than MAX_VISIBLE_ITEMS
ManyWorktrees ==
    [i \in 1..13 |->
        Wt(<< <<"a","b","c","d","e","f","g","h","i","j","k","l","m">>[i] >>)]

Scenarios ==
    { [w |-> << >>, s |-> << >>],
      [w |-> << Wt(Str_main) >>, s |-> << >>],
      [w |-> << Wt(Str_main), Wt(Str_featurex), Wt(Str_fixy) >>, s |-> << >>],
      [w |-> << Wt(Str_xf) >>, s |-> << Sg(Str_fe, 7, Undefined, Undefined) >>],
      [w |-> << >>,
       s |-> << Sg(Str_fixy, 12, << "f", "i", "x" >>, << "u", "/", "1", "2" >>),
                Sg(Str_fe, 7, Undefined, << "u", "/", "7" >>) >>],
      [w |-> ManyWorktrees, s |-> << >>] }

-----------------------------------------------------------------------------
(* Text helpers (JavaScript string operations used by the picker) *)

Digit(d) == << "0", "1", "2", "3", "4", "5", "6", "7", "8", "9" >>[d + 1]

\* `${number}` for a non-negative integer below 100
NumberToString(n) ==
    IF n < 10 THEN << Digit(n) >> ELSE << Digit(n \div 10), Digit(n % 10) >>

\* value ?? ''
OrEmpty(v) == IF v = Undefined THEN << >> ELSE v

RECURSIVE TrimStart(_)
TrimStart(s) ==
    IF s # << >> /\ Head(s) = " " THEN TrimStart(Tail(s)) ELSE s

RECURSIVE TrimEnd(_)
TrimEnd(s) ==
    IF s # << >> /\ s[Len(s)] = " " THEN TrimEnd(SubSeq(s, 1, Len(s) - 1)) ELSE s

\* String.prototype.trim on text whose only whitespace is ' '
Trim(s) == TrimEnd(TrimStart(s))

\* the whole query cleared
SliceDropLast_Empties(s) == << >>

\* the first character dropped in place of the last: slice(1)
SliceDropLast_DropsFirst(s) == SubSeq(s, 2, Len(s))

\* String.prototype.slice(0, -1)
SliceDropLast(s) == SubSeq(s, 1, Len(s) - 1)

-----------------------------------------------------------------------------
(* buildPickerItems *)

WorktreeItem(worktree) ==
    [kind |-> "worktree", ref |-> worktree,
     branch |-> worktree.branch, path |-> worktree.path,
     title |-> << >>, number |-> << >>, url |-> << >>,
     searchText |-> worktree.branch \o << " " >> \o worktree.path]

\* `${value}`: the text a template literal gives for value
TemplateText(v) ==
    IF v = Undefined THEN << "u", "n", "d", "e", "f", "i", "n", "e", "d" >> ELSE v

\* the suggestion item built without the ?? '' defaults
SuggestionItem_NoDefault(suggestion) ==
    [kind |-> "suggestion", ref |-> suggestion,
     branch |-> suggestion.branch, path |-> << >>,
     title |-> OrEmpty(suggestion.title),
     number |-> << "#" >> \o NumberToString(suggestion.number),
     url |-> OrEmpty(suggestion.url),
     searchText |-> suggestion.branch \o << " " >> \o TemplateText(suggestion.title)
                    \o << " ", "#" >> \o NumberToString(suggestion.number)
                    \o << " " >> \o TemplateText(suggestion.url)]

SuggestionItem(suggestion) ==
    [kind |-> "suggestion", ref |-> suggestion,
     branch |-> suggestion.branch, path |-> << >>,
     title |-> OrEmpty(suggestion.title),
     number |-> << "#" >> \o NumberToString(suggestion.number),
     url |-> OrEmpty(suggestion.url),
     searchText |-> suggestion.branch \o << " " >> \o OrEmpty(suggestion.title)
                    \o << " ", "#" >> \o NumberToString(suggestion.number)
                    \o << " " >> \o OrEmpty(suggestion.url)]

buildPickerItems(wts, sgs) ==
    [i \in 1..Len(wts) |-> WorktreeItem(wts[i])]
        \o [i \in 1..Len(sgs) |-> SuggestionItem(sgs[i])]

-----------------------------------------------------------------------------
(* The fuzzy matcher (fuzzysort.go with keys and all: true).  The library   *)
(* is an external dependency; it is modelled as a subsequence matcher over  *)
(* the configured keys: every space-separated term of the trimmed query     *)
(* must be a subsequence of one of the keys; the result is ordered by score *)
(* (best first), equal scores keeping their input order.  All text of the   *)
(* model is lower case, so case folding is the identity.                    *)

NoMatch == 1000

\* the maximal space-free pieces of s, in order
RECURSIVE SplitSpaces(_, _)
SplitSpaces(s, cur) ==
    IF s = << >> THEN (IF cur = << >> THEN << >> ELSE << cur >>)
    ELSE IF Head(s) = " "
         THEN (IF cur = << >> THEN << >> ELSE << cur >>) \o SplitSpaces(Tail(s), << >>)
         ELSE SplitSpaces(Tail(s), Append(cur, Head(s)))

\* leftmost match of term as a subsequence of target from position gi on:
\* the number of target characters before the last matched one that the
\* match skipped, or NoMatch
RECURSIVE Scan(_, _, _, _)
Scan(term, target, ti, gi) ==
    IF ti > Len(term) THEN gi - 1 - Len(term)
    ELSE IF gi > Len(target) THEN NoMatch
    ELSE IF term[ti] = target[gi] THEN Scan(term, target, ti + 1, gi + 1)
    ELSE Scan(term, target, ti, gi + 1)

Min2(a, b) == IF a <= b THEN a ELSE b

SearchKeys(item) ==
    << item.searchText, item.branch, item.path, item.title, item.number, item.url >>

RECURSIVE BestOverKeys(_, _, _)
BestOverKeys(term, keys, k) ==
    IF k > Len(keys) THEN NoMatch
    ELSE Min2(Scan(term, keys[k], 1, 1), BestOverKeys(term, keys, k + 1))

AddPenalty(a, b) == IF a = NoMatch \/ b = NoMatch THEN NoMatch ELSE a + b

RECURSIVE ItemPenalty(_, _, _)
ItemPenalty(terms, item, t) ==
    IF t > Len(terms) THEN 0
    ELSE AddPenalty(BestOverKeys(terms[t], SearchKeys(item), 1),
                    ItemPenalty(terms, item, t + 1))

\* sorted (by penalty, ascending) with e put after every entry not worse
RECURSIVE InsertByPenalty(_, _)
InsertByPenalty(sorted, e) ==
    IF sorted = << >> THEN << e >>
    ELSE IF sorted[Len(sorted)].penalty <= e.penalty THEN Append(sorted, e)
    ELSE Append(InsertByPenalty(SubSeq(sorted, 1, Len(sorted) - 1), e),
                sorted[Len(sorted)])

\* the matching entries among the first n items, best first
RECURSIVE Ranked(_, _, _)
Ranked(terms, items, n) ==
    IF n = 0 THEN << >>
    ELSE IF ItemPenalty(terms, items[n], 1) = NoMatch
         THEN Ranked(terms, items, n - 1)
         ELSE InsertByPenalty(Ranked(terms, items, n - 1),
                              [obj |-> items[n],
                               penalty |-> ItemPenalty(terms, items[n], 1)])

FuzzyGo(query, items) ==
    LET terms == SplitSpaces(Trim(query), << >>)
        ranked == IF terms = << >> THEN << >> ELSE Ranked(terms, items, Len(items))
    IN  [i \in 1..Len(ranked) |-> ranked[i].obj]

\* the item lists and queries of the model, and the matcher's answers for
\* them, computed once
ItemLists == { buildPickerItems(sc.w, sc.s) : sc \in Scenarios }

TypedChars == { "f", "e", "z", " " }

Queries == UNION { [1..n -> TypedChars] : n \in 0..MaxQuery }

FuzzyTable == [items \in ItemLists |-> [query \in Queries |-> FuzzyGo(query, items)]]

fuzzysortGo(query, items) ==
    IF items \in ItemLists /\ query \in Queries
    THEN FuzzyTable[items][query]
    ELSE FuzzyGo(query, items)

-----------------------------------------------------------------------------
(* State computations of runLivePicker *)

MAX_VISIBLE_ITEMS == 12

Max2(a, b) == IF a >= b THEN a ELSE b

\* JavaScript % (remainder with the sign of the dividend), for b > 0
JsRem(a, b) == IF a >= 0 THEN a % b ELSE -((-a) % b)

\* the window fixed at the top of the list
computeVisibleWindow_FromTop(total, selectedIndex) ==
    [start |-> 0, end |-> Min2(total, MAX_VISIBLE_ITEMS)]

\* computeVisibleWindow without the pull-back of start at the right edge
computeVisibleWindow_NoPullBack(total, selectedIndex) ==
    IF total <= MAX_VISIBLE_ITEMS
    THEN [start |-> 0, end |-> total]
    ELSE LET start == Max2(0, selectedIndex - MAX_VISIBLE_ITEMS \div 2)
         IN  [start |-> start, end |-> Min2(start + MAX_VISIBLE_ITEMS, total)]

computeVisibleWindow(total, selectedIndex) ==
    IF total <= MAX_VISIBLE_ITEMS
    THEN [start |-> 0, end |-> total]
    ELSE LET halfWindow == MAX_VISIBLE_ITEMS \div 2
             start0 == Max2(0, selectedIndex - halfWindow)
             start == IF start0 + MAX_VISIBLE_ITEMS > total
                      THEN total - MAX_VISIBLE_ITEMS ELSE start0
         IN  [start |-> start, end |-> Min2(start + MAX_VISIBLE_ITEMS, total)]

\* the bypass of the matcher tested on the untrimmed query
FilterFor_NoTrim(query, items) ==
    IF Len(query) = 0 THEN items ELSE fuzzysortGo(query, items)

\* first half of updateFilteredItems: the new filteredItems
FilterFor(query, items) ==
    IF Len(Trim(query)) = 0 THEN items ELSE fuzzysortGo(query, items)

\* the selection reset to the first item after every refilter
ClampSelection_ResetToZero(sel, filtered) ==
    IF Len(filtered) = 0 THEN -1 ELSE 0

\* the clamp without its last branch
ClampSelection_NoUpperClamp(sel, filtered) ==
    IF Len(filtered) = 0 THEN -1
    ELSE IF sel = -1 THEN 0
    ELSE sel

\* second half of updateFilteredItems: the new selectionIndex
ClampSelection(sel, filtered) ==
    IF Len(filtered) = 0 THEN -1
    ELSE IF sel = -1 THEN 0
    ELSE IF sel >= Len(filtered) THEN Len(filtered) - 1
    ELSE sel

updateFilteredItems(query, items, sel) ==
    LET filtered == FilterFor(query, items)
    IN  [filteredItems |-> filtered, selectionIndex |-> ClampSelection(sel, filtered)]

\* the selection stopped at the ends of the list instead of wrapping
NextIndex_Clamp(sel, delta, length) ==
    Max2(0, Min2(length - 1, sel + delta))

\* the wrap-around without the correction of a negative remainder
NextIndex_NoWrapFix(sel, delta, length) == JsRem(sel + delta, length)

\* the index moveSelection assigns when filteredItems is non-empty
NextIndex(sel, delta, length) ==
    JsRem(JsRem(sel + delta, length) + length, length)

\* the number of entries render() pushes onto lines
RenderLineCount(filtered, sel) ==
    LET body ==
          IF Len(filtered) = 0 THEN 1
          ELSE LET win == computeVisibleWindow(Len(filtered), sel)
               IN  (IF win.start > 0 THEN 1 ELSE 0)
                   + 2 * (win.end - win.start)
                   + (IF win.end < Len(filtered) THEN 1 ELSE 0)
    IN  4 + body + 2

\* clearPreviousLines clearing one line too few
clearPreviousLines_OffByOne(lastCount) ==
    IF lastCount = 0 THEN 0 ELSE lastCount - 1

\* clearPreviousLines: the number of lines it clears
clearPreviousLines(lastCount) == lastCount

\* render(): lines cleared, lines written, and the new lastRenderLineCount
render(lastCount, filtered, sel) ==
    [erased |-> clearPreviousLines(lastCount),
     emitted |-> RenderLineCount(filtered, sel),
     lastRenderLineCount |-> RenderLineCount(filtered, sel)]

NoFrame == [kind |-> "noframe"]

\* render(): what the lines it builds show -- the query, the list and the
\* selection it read, the window it drew and the drawn indices that carry
\* the pointer
renderFrame(query, filtered, sel) ==
    LET win == IF Len(filtered) = 0 THEN [start |-> 0, end |-> 0]
               ELSE computeVisibleWindow(Len(filtered), sel)
    IN  [searchQuery |-> query, filteredItems |-> filtered,
         selectionIndex |-> sel, start |-> win.start, end |-> win.end,
         pointers |-> { i \in win.start..(win.end - 1) : i = sel }]

-----------------------------------------------------------------------------
(* Terminal resources: stdin raw mode, cursor visibility, the 'data'       *)
(* listener, and the ordered log of the calls made on them.                *)

Ev(op, by, arg) == [op |-> op, by |-> by, arg |-> arg]

\* the steps of the try block of runLivePicker that touch the terminal
SetupSteps ==
    << "setRawMode", "setEncoding", "resume", "hideCursor",
       "renderWrite", "renderCursorTo", "on" >>

StepIndex(step) == CHOOSE i \in 1..Len(SetupSteps) : SetupSteps[i] = step

\* step completed when the call number faultAt throws (0: none throws)
Completed(step, faultAt) == faultAt = 0 \/ StepIndex(step) < faultAt

\* the listener attached before the cursor is hidden and the frame drawn
setupTerminal_ListenFirst(term, canRaw, faultAt) ==
    [isRaw |-> IF canRaw /\ Completed("setRawMode", faultAt) THEN TRUE ELSE term.isRaw,
     cursorVisible |-> IF Completed("hideCursor", faultAt) THEN FALSE ELSE term.cursorVisible,
     listening |-> IF Completed("on", faultAt) THEN TRUE ELSE term.listening,
     events |-> term.events
        \o (IF canRaw /\ Completed("setRawMode", faultAt)
            THEN << Ev("setRawMode", "setup", TRUE) >> ELSE << >>)
        \o (IF Completed("on", faultAt)
            THEN << Ev("on", "setup", FALSE) >> ELSE << >>)
        \o (IF Completed("hideCursor", faultAt)
            THEN << Ev("hideCursor", "setup", FALSE) >> ELSE << >>)
        \o (IF Completed("renderWrite", faultAt)
            THEN << Ev("renderWrite", "setup", FALSE) >> ELSE << >>)]

\* the try block of runLivePicker up to the throwing call
setupTerminal(term, canRaw, faultAt) ==
    [isRaw |-> IF canRaw /\ Completed("setRawMode", faultAt) THEN TRUE ELSE term.isRaw,
     cursorVisible |-> IF Completed("hideCursor", faultAt) THEN FALSE ELSE term.cursorVisible,
     listening |-> IF Completed("on", faultAt) THEN TRUE ELSE term.listening,
     events |-> term.events
        \o (IF canRaw /\ Completed("setRawMode", faultAt)
            THEN << Ev("setRawMode", "setup", TRUE) >> ELSE << >>)
        \o (IF Completed("setEncoding", faultAt)
            THEN << Ev("setEncoding", "setup", FALSE) >> ELSE << >>)
        \o (IF Completed("resume", faultAt)
            THEN << Ev("resume", "setup", FALSE) >> ELSE << >>)
        \o (IF Completed("hideCursor", faultAt)
            THEN << Ev("hideCursor", "setup", FALSE) >> ELSE << >>)
        \o (IF Completed("renderWrite", faultAt)
            THEN << Ev("renderWrite", "setup", FALSE) >> ELSE << >>)
        \o (IF Completed("on", faultAt)
            THEN << Ev("on", "setup", FALSE) >> ELSE << >>)]

\* the catch block without restoreCursor()
setupCatch_NoShowCursor(term, canRaw, orig) ==
    [isRaw |-> IF canRaw THEN orig ELSE term.isRaw,
     cursorVisible |-> term.cursorVisible,
     listening |-> FALSE,
     events |-> term.events
        \o (IF canRaw THEN << Ev("setRawMode", "catch", orig) >> ELSE << >>)
        \o << Ev("removeListener", "catch", FALSE),
              Ev("pause", "catch", FALSE),
              Ev("resolve", "catch", FALSE) >>]

\* the catch block of runLivePicker
setupCatch(term, canRaw, orig) ==
    [isRaw |-> IF canRaw THEN orig ELSE term.isRaw,
     cursorVisible |-> TRUE,
     listening |-> FALSE,
     events |-> term.events
        \o << Ev("showCursor", "catch", FALSE) >>
        \o (IF canRaw THEN << Ev("setRawMode", "catch", orig) >> ELSE << >>)
        \o << Ev("removeListener", "catch", FALSE),
              Ev("pause", "catch", FALSE),
              Ev("resolve", "catch", FALSE) >>]

\* cleanup without stdin.removeListener('data', onData)
cleanup_KeepsListener(term, canRaw, orig) ==
    [isRaw |-> IF canRaw THEN orig ELSE term.isRaw,
     cursorVisible |-> TRUE,
     listening |-> term.listening,
     events |-> term.events
        \o << Ev("showCursor", "cleanup", FALSE) >>
        \o (IF canRaw THEN << Ev("setRawMode", "cleanup", orig) >> ELSE << >>)
        \o << Ev("pause", "cleanup", FALSE),
              Ev("resolve", "cleanup", FALSE) >>]

\* cleanup that switches raw mode off whatever it was before
cleanup_RawOff(term, canRaw, orig) ==
    [isRaw |-> IF canRaw THEN FALSE ELSE term.isRaw,
     cursorVisible |-> TRUE,
     listening |-> FALSE,
     events |-> term.events
        \o << Ev("showCursor", "cleanup", FALSE) >>
        \o (IF canRaw THEN << Ev("setRawMode", "cleanup", FALSE) >> ELSE << >>)
        \o << Ev("removeListener", "cleanup", FALSE),
              Ev("pause", "cleanup", FALSE),
              Ev("resolve", "cleanup", FALSE) >>]

\* cleanup(result): the terminal part
cleanup(term, canRaw, orig) ==
    [isRaw |-> IF canRaw THEN orig ELSE term.isRaw,
     cursorVisible |-> TRUE,
     listening |-> FALSE,
     events |-> term.events
        \o << Ev("showCursor", "cleanup", FALSE) >>
        \o (IF canRaw THEN << Ev("setRawMode", "cleanup", orig) >> ELSE << >>)
        \o << Ev("removeListener", "cleanup", FALSE),
              Ev("pause", "cleanup", FALSE),
              Ev("resolve", "cleanup", FALSE) >>]

-----------------------------------------------------------------------------
(* Input chunks and the keystroke handler onData *)

\* the cancel test without Escape
KeyCancel_NoEscape == { << ETX >> }

\* the cancel test met by a chunk of two Ctrl-C bytes as well
KeyCancel_Repeated == { << ETX >>, << ESC >>, << ETX, ETX >> }

KeyCancel == { << ETX >>, << ESC >> }

\* the Enter test met by Tab as well
KeyEnter_AlsoTab == { << CR >>, << LF >>, << TAB >> }

KeyEnter == { << CR >>, << LF >> }

KeyBackspace == { << DEL >>, << BS >>, << ESC, "[", "3", "~" >> }
KeyUp        == { << ESC, "[", "A" >>, << ESC, "O", "A" >> }
KeyDown      == { << ESC, "[", "B" >>, << ESC, "O", "B" >> }
KeyPageUp    == { << ESC, "[", "5", "~" >> }
KeyPageDown  == { << ESC, "[", "6", "~" >> }

\* the chunks the model feeds to onData
Chunks ==
    { << ETX >>, << ESC >>, << CR >>, << LF >>,
      << DEL >>, << BS >>, << ESC, "[", "3", "~" >>,
      << ESC, "[", "A" >>, << ESC, "O", "A" >>,
      << ESC, "[", "B" >>, << ESC, "O", "B" >>,
      << ESC, "[", "5", "~" >>, << ESC, "[", "6", "~" >> }
    \cup { << c >> : c \in TypedChars }
    \cup { << "f", "e" >>, << "f", CR >>, << TAB, "e" >>, << ETX, ETX >>,
           << ESC, "[", "Z" >>, << ESC, "f" >>, << TAB >>, << EACUTE >> }

\* only the first character in range kept
PrintablePart_FirstOnly(chunk) ==
    IF SelectSeq(chunk, IsPrintable) = << >> THEN << >>
    ELSE << Head(SelectSeq(chunk, IsPrintable)) >>

\* every character of the chunk kept, without the range test
PrintablePart_All(chunk) == chunk

\* the characters of chunk with ' ' <= char <= '~', in order
PrintablePart(chunk) == SelectSeq(chunk, IsPrintable)

\* the selection Enter builds from the selected item
SelectionOf(item) == [kind |-> item.kind, ref |-> item.ref]

\* the Enter test with > in place of >=
EnterResolves_OffByOne(sel, filtered) == sel > 0 /\ sel < Len(filtered)

\* Enter resolves when selectionIndex >= 0 && filteredItems[selectionIndex]
EnterResolves(sel, filtered) == sel >= 0 /\ sel < Len(filtered)

Outcome(query, filtered, sel, io, res) ==
    [searchQuery |-> query, filteredItems |-> filtered, selectionIndex |-> sel,
     io |-> io, result |-> res, frame |-> NoFrame]

\* the outcome of a handler that ends with render()
Rendered(query, filtered, sel) ==
    [searchQuery |-> query, filteredItems |-> filtered, selectionIndex |-> sel,
     io |-> "render", result |-> Null, frame |-> renderFrame(query, filtered, sel)]

\* render() called before updateFilteredItems(): the frame shows the list
\* and the selection as they were before the refilter
EditQuery_RenderBeforeRefilter(query, items, sel) ==
    LET u == updateFilteredItems(query, items, sel)
    IN  [searchQuery |-> query, filteredItems |-> u.filteredItems,
         selectionIndex |-> u.selectionIndex, io |-> "render", result |-> Null,
         frame |-> renderFrame(query, items, sel)]

\* the refilter run on the query as it was before a one-character append
EditQuery_FilterBeforeEdit(query, items, sel) ==
    LET u == updateFilteredItems(SliceDropLast(query), items, sel)
    IN  Rendered(query, u.filteredItems, u.selectionIndex)

\* query edit followed by updateFilteredItems(); render()
EditQuery(query, items, sel) ==
    LET u == updateFilteredItems(query, items, sel)
    IN  Rendered(query, u.filteredItems, u.selectionIndex)

\* moveSelection without the early return on an empty list
moveSelection_RendersWhenEmpty(query, filtered, sel, delta) ==
    IF Len(filtered) = 0
    THEN Rendered(query, filtered, sel)
    ELSE Rendered(query, filtered, NextIndex(sel, delta, Len(filtered)))

\* moveSelection(delta)
moveSelection(query, filtered, sel, delta) ==
    IF Len(filtered) = 0
    THEN Outcome(query, filtered, sel, "none", Null)
    ELSE Rendered(query, filtered, NextIndex(sel, delta, Len(filtered)))

\* onData(chunk): the new picker state, the terminal work it requests
\* ("none", "render" or "cleanup") and the result passed to cleanup
onData(chunk, query, items, filtered, sel) ==
    LET same == Outcome(query, filtered, sel, "none", Null) IN
    IF chunk \in KeyCancel
        THEN Outcome(query, filtered, sel, "cleanup", Null)
    ELSE IF chunk \in KeyEnter
        THEN IF EnterResolves(sel, filtered)
             THEN Outcome(query, filtered, sel, "cleanup", SelectionOf(filtered[sel + 1]))
             ELSE same
    ELSE IF chunk \in KeyBackspace
        THEN IF Len(query) > 0
             THEN EditQuery(SliceDropLast(query), items, sel)
             ELSE same
    ELSE IF chunk \in KeyUp THEN moveSelection(query, filtered, sel, -1)
    ELSE IF chunk \in KeyDown THEN moveSelection(query, filtered, sel, 1)
    ELSE IF chunk \in KeyPageUp THEN moveSelection(query, filtered, sel, -MAX_VISIBLE_ITEMS)
    ELSE IF chunk \in KeyPageDown THEN moveSelection(query, filtered, sel, MAX_VISIBLE_ITEMS)
    ELSE IF Len(chunk) = 1 /\ IsPrintable(chunk[1])
        THEN EditQuery(query \o chunk, items, sel)
    ELSE IF chunk[1] # ESC
        THEN IF PrintablePart(chunk) # << >>
             THEN EditQuery(query \o PrintablePart(chunk), items, sel)
             ELSE same
    ELSE same

-----------------------------------------------------------------------------
(* GitHub CLI: the availability probe of github.ts and the suggestions of   *)
(* getWorktreeSuggestions, reached through resolveWorktreeSuggestions       *)

\* what spawnSync('gh', ['--version']) can do: return a result with a
\* status (-1: null) and possibly an error, or throw
GhOutcomes ==
    { [threw |-> FALSE, status |-> 0, error |-> FALSE],
      [threw |-> FALSE, status |-> 1, error |-> FALSE],
      [threw |-> FALSE, status |-> 0, error |-> TRUE],
      [threw |-> FALSE, status |-> -1, error |-> TRUE],
      [threw |-> TRUE, status |-> -1, error |-> FALSE] }

GhInstalled == [threw |-> FALSE, status |-> 0, error |-> FALSE]
GhMissing == [threw |-> FALSE, status |-> -1, error |-> TRUE]

NoProbe == [threw |-> FALSE, status |-> -2, error |-> FALSE]

\* the try / catch / finally of isGhInstalled: the value assigned to
\* ghAvailabilityState.available
ProbeAvailable(outcome) ==
    IF outcome.threw THEN FALSE
    ELSE outcome.status = 0 /\ ~outcome.error

\* isGhInstalled probing on every call
isGhInstalled_NoCache(state, env) ==
    [state |-> [checked |-> TRUE, available |-> ProbeAvailable(env)],
     probed |-> TRUE,
     returns |-> ProbeAvailable(env)]

\* isGhInstalled(args): the new ghAvailabilityState, whether gh was spawned,
\* and the value returned
isGhInstalled(state, env) ==
    IF ~state.checked
    THEN [state |-> [checked |-> TRUE, available |-> ProbeAvailable(env)],
          probed |-> TRUE,
          returns |-> ProbeAvailable(env)]
    ELSE [state |-> state, probed |-> FALSE, returns |-> state.available]

Cwds == { "/repo", "/repo/sub" }

\* login.toLowerCase() includes one of COPILOT_AUTHOR_MARKERS; the logins of
\* the model are "octocat", "Copilot-SWE-Agent" and "" (author absent)
isCopilotAuthorLogin(login) == login = "Copilot-SWE-Agent"

\* a validated PullRequestSummary; updatedAt is a time (-1: absent or not a
\* date)
Pr(number, headRefName, updatedAt, login) ==
    [number |-> number, headRefName |-> headRefName, updatedAt |-> updatedAt,
     login |-> login]

AuthoredPool ==
    { Pr(1, "a", 5, "octocat"), Pr(2, "b", -1, "octocat"),
      Pr(3, "a", 9, "octocat"), Pr(4, "c", 9, "") }

AssignedPool ==
    { Pr(5, "a", 7, "Copilot-SWE-Agent"), Pr(6, "d", 3, "Copilot-SWE-Agent"),
      Pr(7, "c", 1, "octocat"), Pr(8, "b", 9, "Copilot-SWE-Agent") }

\* the sequences without repetition of at most n members of pool
RECURSIVE ListsOf(_, _)
ListsOf(pool, n) ==
    IF n = 0 THEN { << >> }
    ELSE { << >> } \cup
         UNION { { << x >> \o rest : rest \in ListsOf(pool \ { x }, n - 1) } : x \in pool }

\* runGhPullRequestList: null, or the entries that passed validation
GhNull == [ok |-> FALSE, prs |-> << >>]
GhList(prs) == [ok |-> TRUE, prs |-> prs]

GhResults(pool) == { GhNull } \cup { GhList(l) : l \in ListsOf(pool, MaxPRs) }

\* Array.prototype.slice(0, n) for n >= 0
SliceTo(list, n) == SubSeq(list, 1, Min2(n, Len(list)))

IsCopilotPr(pr) == pr.login # "" /\ isCopilotAuthorLogin(pr.login)

\* getAssignedCopilotPullRequests after the fetch
getAssignedCopilotPullRequests(fetched, lim) ==
    IF ~fetched.ok THEN GhNull
    ELSE LET filtered == SelectSeq(fetched.prs, IsCopilotPr)
         IN  IF Len(filtered) = 0 THEN GhList(<< >>)
             ELSE GhList(SliceTo(filtered, Max2(lim, 0)))

\* addSuggestion without seenBranches.add(branch)
addSuggestion_NoRecord(acc, pr, copilotAssigned) ==
    IF pr.headRefName \in acc.seenBranches THEN acc
    ELSE [seenBranches |-> acc.seenBranches,
          suggestions |-> Append(acc.suggestions,
              [branch |-> pr.headRefName, number |-> pr.number,
               updatedAt |-> pr.updatedAt, copilotAssigned |-> copilotAssigned])]

\* addSuggestion: seenBranches and suggestions after the call
addSuggestion(acc, pr, copilotAssigned) ==
    IF pr.headRefName \in acc.seenBranches THEN acc
    ELSE [seenBranches |-> acc.seenBranches \cup { pr.headRefName },
          suggestions |-> Append(acc.suggestions,
              [branch |-> pr.headRefName, number |-> pr.number,
               updatedAt |-> pr.updatedAt, copilotAssigned |-> copilotAssigned])]

\* for (const pr of list) addSuggestion({ pr, copilotAssigned })
RECURSIVE AddAll(_, _, _)
AddAll(acc, list, copilotAssigned) ==
    IF list = << >> THEN acc
    ELSE AddAll(addSuggestion(acc, Head(list), copilotAssigned), Tail(list),
                copilotAssigned)

\* toTimestamp: 0 for an absent or unparsable updatedAt
toTimestamp(value) == IF value < 0 THEN 0 ELSE value

\* localeCompare on the branch names of the model
BranchRank(branch) ==
    CASE branch = "a" -> 1 [] branch = "b" -> 2 [] branch = "c" -> 3
      [] branch = "d" -> 4

\* the comparator of sortByRecency is negative: left sorts before right
SortsBefore(left, right) ==
    IF toTimestamp(right.updatedAt) # toTimestamp(left.updatedAt)
    THEN toTimestamp(right.updatedAt) - toTimestamp(left.updatedAt) < 0
    ELSE BranchRank(left.branch) < BranchRank(right.branch)

RECURSIVE InsertSorted(_, _)
InsertSorted(x, sorted) ==
    IF sorted = << >> THEN << x >>
    ELSE IF SortsBefore(x, Head(sorted)) THEN << x >> \o sorted
    ELSE << Head(sorted) >> \o InsertSorted(x, Tail(sorted))

RECURSIVE sortByRecency(_)
sortByRecency(list) ==
    IF list = << >> THEN << >>
    ELSE InsertSorted(list[Len(list)], sortByRecency(SubSeq(list, 1, Len(list) - 1)))

IsAuthoredSuggestion(sg) == ~sg.copilotAssigned
IsCopilotSuggestion(sg) == sg.copilotAssigned

\* getWorktreeSuggestions after its two fetches
getWorktreeSuggestions(authored, assignedRaw, existing, lim) ==
    LET assigned == getAssignedCopilotPullRequests(assignedRaw, lim)
        acc0 == [seenBranches |-> existing, suggestions |-> << >>]
        acc1 == IF authored.ok THEN AddAll(acc0, authored.prs, FALSE) ELSE acc0
        acc2 == IF assigned.ok THEN AddAll(acc1, assigned.prs, TRUE) ELSE acc1
        authoredSuggestions ==
            sortByRecency(SelectSeq(acc2.suggestions, IsAuthoredSuggestion))
        copilotSuggestions ==
            sortByRecency(SelectSeq(acc2.suggestions, IsCopilotSuggestion))
    IN  IF ~authored.ok /\ ~assigned.ok THEN GhNull
        ELSE IF Len(acc2.suggestions) = 0 THEN GhList(<< >>)
        ELSE IF Len(authoredSuggestions) >= lim
             THEN GhList(SliceTo(authoredSuggestions, lim))
        ELSE GhList(authoredSuggestions
                    \o SliceTo(copilotSuggestions,
                               Max2(lim - Len(authoredSuggestions), 0)))

NotCalled == [status |-> "notcalled", suggestions |-> << >>]

\* resolveWorktreeSuggestions after isGhInstalled returned ghAvailable
resolveWorktreeSuggestions(ghAvailable, authored, assignedRaw, existing, lim) ==
    IF ~ghAvailable THEN [status |-> "unavailable", suggestions |-> << >>]
    ELSE LET found == getWorktreeSuggestions(authored, assignedRaw, existing, lim)
         IN  IF ~found.ok THEN [status |-> "error", suggestions |-> << >>]
             ELSE IF Len(found.prs) = 0
                  THEN [status |-> "empty", suggestions |-> << >>]
             ELSE [status |-> "ok", suggestions |-> found.prs]

\* the process before any isGhInstalled call
GhIdle ==
    /\ ghEnv = GhInstalled
    /\ ghAvailabilityState = [checked |-> FALSE, available |-> FALSE]
    /\ ghProbes = 0
    /\ ghCalls = 0
    /\ ghReturned = << >>
    /\ ghFirst = NoProbe
    /\ ghCwd = ""

SuggestIdle ==
    /\ authoredFetched = GhNull
    /\ assignedFetched = GhNull
    /\ existingBranches = { }
    /\ limit = 0
    /\ resolution = NotCalled

-----------------------------------------------------------------------------
(* The state machine *)

Terminal == [isRaw |-> isRaw, cursorVisible |-> cursorVisible,
             listening |-> listening, events |-> events]

SetTerminal(term) ==
    /\ isRaw' = term.isRaw
    /\ cursorVisible' = term.cursorVisible
    /\ listening' = term.listening
    /\ events' = term.events

\* the picker before pickWorktree is called
PickerIdle ==
    /\ pc = "idle"
    /\ originalRawMode = FALSE
    /\ cursorVisible = TRUE
    /\ listening = FALSE
    /\ allItems = << >>
    /\ searchQuery = << >>
    /\ filteredItems = << >>
    /\ selectionIndex = -1
    /\ lastRenderLineCount = 0
    /\ choiceList = << >>
    /\ result = Null
    /\ delivered = 0
    /\ events = << >>
    /\ lastChunk = << >>
    /\ renders = 0
    /\ erased = 0
    /\ emitted = 0
    /\ frameLines = 0
    /\ drawn = NoFrame
    /\ before = [searchQuery |-> << >>, filteredItems |-> << >>]
    /\ dropped = 0
    /\ failure = "none"

Init ==
    /\ PickerIdle
    /\ \E sc \in Scenarios : worktrees = sc.w /\ suggestions = sc.s
    /\ stdinIsTTY \in BOOLEAN
    /\ stdoutIsTTY \in BOOLEAN
    /\ hasSetRawMode \in BOOLEAN
    /\ isRaw \in BOOLEAN
    /\ startRaw = isRaw
    /\ winTotal = 0 /\ winSelected = -1 /\ winResult = NoWindow
    /\ GhIdle
    /\ SuggestIdle

\* the capability check without the setRawMode test
LiveCapable_NoRawCheck == stdinIsTTY /\ stdoutIsTTY

\* the capability check of pickWorktree
LiveCapable == stdinIsTTY /\ stdoutIsTTY /\ hasSetRawMode

\* pickWorktree with nothing to pick: return null
PickWorktreeEmpty ==
    /\ pc = "idle"
    /\ Len(worktrees) = 0 /\ Len(suggestions) = 0
    /\ pc' = "done"
    /\ result' = Null
    /\ delivered' = delivered + 1
    /\ UNCHANGED << inputVars, isRaw, originalRawMode, cursorVisible, listening,
                    allItems, searchQuery, filteredItems, selectionIndex,
                    lastRenderLineCount, choiceList, events, lastChunk, renders,
                    erased, failure, emitted, frameLines, drawn, before,
                    dropped >>

\* fallbackPickWorktree up to the call of clack.select
fallbackChoices(wts, sgs) ==
    [i \in 1..Len(wts) |-> [value |-> [kind |-> "worktree", ref |-> wts[i]]]]
        \o [i \in 1..Len(sgs) |-> [value |-> [kind |-> "suggestion", ref |-> sgs[i]]]]

PickWorktreeFallback ==
    /\ pc = "idle"
    /\ ~(Len(worktrees) = 0 /\ Len(suggestions) = 0)
    /\ ~LiveCapable
    /\ pc' = "fallback"
    /\ choiceList' = fallbackChoices(worktrees, suggestions)
    /\ UNCHANGED << inputVars, isRaw, originalRawMode, cursorVisible, listening,
                    allItems, searchQuery, filteredItems, selectionIndex,
                    lastRenderLineCount, result, delivered, events, lastChunk,
                    renders, erased, failure, emitted, frameLines, drawn, before,
                    dropped >>

\* clack.select answers: a choice of the list, or cancel (choice 0)
FallbackSelect(choice) ==
    /\ pc = "fallback"
    /\ pc' = "done"
    /\ result' = IF choice = 0 THEN Null ELSE choiceList[choice].value
    /\ delivered' = delivered + 1
    /\ UNCHANGED << inputVars, isRaw, originalRawMode, cursorVisible, listening,
                    allItems, searchQuery, filteredItems, selectionIndex,
                    lastRenderLineCount, choiceList, events, lastChunk, renders,
                    erased, failure, emitted, frameLines, drawn, before,
                    dropped >>

\* pickWorktree on a capable terminal: buildPickerItems and the synchronous
\* part of runLivePicker; call number faultAt of SetupSteps throws (0: none)
PickWorktreeLive(faultAt) ==
    /\ pc = "idle"
    /\ ~(Len(worktrees) = 0 /\ Len(suggestions) = 0)
    /\ LiveCapable
    /\ \E items \in { buildPickerItems(worktrees, suggestions) } :
       LET orig == (isRaw = TRUE)
           sel0 == IF Len(items) > 0 THEN 0 ELSE -1
           u == IF Completed("hideCursor", faultAt)
                THEN updateFilteredItems(<< >>, items, sel0)
                ELSE [filteredItems |-> items, selectionIndex |-> sel0]
           t1 == setupTerminal(Terminal, hasSetRawMode, faultAt)
           t2 == IF faultAt = 0 THEN t1 ELSE setupCatch(t1, hasSetRawMode, orig)
       IN  /\ originalRawMode' = orig
           /\ allItems' = items
           /\ searchQuery' = << >>
           /\ filteredItems' = u.filteredItems
           /\ selectionIndex' = u.selectionIndex
           /\ renders' = IF Completed("hideCursor", faultAt) THEN 1 ELSE 0
           /\ \E r \in { render(0, u.filteredItems, u.selectionIndex) } :
                IF Completed("renderWrite", faultAt)
                THEN /\ erased' = r.erased
                     /\ emitted' = r.emitted
                     /\ frameLines' = frameLines - r.erased + r.emitted
                     /\ lastRenderLineCount' = r.lastRenderLineCount
                     /\ drawn' = renderFrame(<< >>, u.filteredItems,
                                             u.selectionIndex)
                ELSE /\ erased' = 0
                     /\ emitted' = 0
                     /\ frameLines' = frameLines
                     /\ lastRenderLineCount' = 0
                     /\ drawn' = drawn
           /\ SetTerminal(t2)
           /\ pc' = IF faultAt = 0 THEN "active" ELSE "done"
           /\ result' = Null
           /\ delivered' = IF faultAt = 0 THEN delivered ELSE delivered + 1
           /\ failure' = IF faultAt = 0 THEN "none" ELSE SetupSteps[faultAt]
    /\ UNCHANGED << inputVars, choiceList, lastChunk, before, dropped >>

\* one 'data' event handled by onData without a terminal fault; stdin
\* calls onData for as long as it is attached
OnData(chunk) ==
    /\ pc # "threw"
    /\ listening
    /\ \E o \in { onData(chunk, searchQuery, allItems, filteredItems, selectionIndex) } :
           /\ Len(o.searchQuery) <= MaxQuery
           /\ lastChunk' = chunk
           /\ searchQuery' = o.searchQuery
           /\ filteredItems' = o.filteredItems
           /\ selectionIndex' = o.selectionIndex
           /\ renders' = IF o.io = "render" THEN 1 ELSE 0
           /\ IF o.io = "render"
              THEN \E r \in { render(lastRenderLineCount, o.filteredItems,
                                     o.selectionIndex) } :
                     /\ erased' = r.erased
                     /\ emitted' = r.emitted
                     /\ frameLines' = frameLines - r.erased + r.emitted
                     /\ lastRenderLineCount' = r.lastRenderLineCount
                     /\ drawn' = o.frame
              ELSE /\ erased' = IF o.io = "cleanup"
                                THEN clearPreviousLines(lastRenderLineCount) ELSE 0
                   /\ frameLines' = frameLines - erased'
                   /\ UNCHANGED << emitted, lastRenderLineCount, drawn >>
           /\ IF o.io = "cleanup"
              THEN /\ SetTerminal(cleanup(Terminal, hasSetRawMode, originalRawMode))
                   /\ pc' = "done"
                   /\ result' = o.result
                   /\ delivered' = delivered + 1
              ELSE UNCHANGED << isRaw, cursorVisible, listening, events, pc,
                                result, delivered >>
    /\ before' = [searchQuery |-> searchQuery, filteredItems |-> filteredItems]
    /\ UNCHANGED << inputVars, originalRawMode, allItems, choiceList, failure,
                    dropped >>

\* one 'data' event during which the first terminal write of the handler
\* (clearPreviousLines of render or of cleanup) throws: onData has no
\* try/catch, so the exception leaves the handler
OnDataThrows(chunk) ==
    /\ pc = "active"
    /\ listening
    /\ \E o \in { onData(chunk, searchQuery, allItems, filteredItems, selectionIndex) } :
           /\ Len(o.searchQuery) <= MaxQuery
           /\ o.io # "none"
           /\ lastChunk' = chunk
           /\ searchQuery' = o.searchQuery
           /\ filteredItems' = o.filteredItems
           /\ selectionIndex' = o.selectionIndex
           /\ renders' = IF o.io = "render" THEN 1 ELSE 0
           /\ erased' = 0
    /\ pc' = "threw"
    /\ failure' = "onData"
    /\ before' = [searchQuery |-> searchQuery, filteredItems |-> filteredItems]
    /\ UNCHANGED << inputVars, isRaw, originalRawMode, cursorVisible, listening,
                    allItems, lastRenderLineCount, choiceList, result, delivered,
                    events, emitted, frameLines, drawn, dropped >>

\* a chunk reaches stdin after the live picker removed its listener and
\* paused the stream: no handler of the picker runs
DataDropped(chunk) ==
    /\ pc = "done"
    /\ events # << >>
    /\ ~listening
    /\ dropped < MaxDropped
    /\ dropped' = dropped + 1
    /\ UNCHANGED << inputVars, pc, isRaw, originalRawMode, cursorVisible,
                    listening, allItems, searchQuery, filteredItems,
                    selectionIndex, lastRenderLineCount, choiceList, result,
                    delivered, events, lastChunk, renders, erased, failure,
                    emitted, frameLines, drawn, before >>

\* every terminal call succeeds
Next ==
    \/ PickWorktreeEmpty
    \/ PickWorktreeFallback
    \/ \E choice \in 0..Len(choiceList) : FallbackSelect(choice)
    \/ PickWorktreeLive(0)
    \/ \E chunk \in Chunks : OnData(chunk)
    \/ \E chunk \in Chunks : DataDropped(chunk)

Spec == Init /\ [][Next]_vars

\* one terminal call of the session may throw
NextFault ==
    \/ Next
    \/ \E faultAt \in 1..Len(SetupSteps) : PickWorktreeLive(faultAt)
    \/ \E chunk \in Chunks : OnDataThrows(chunk)

SpecFault == Init /\ [][NextFault]_vars

-----------------------------------------------------------------------------
(* computeVisibleWindow on its own: every total up to MaxTotal with every   *)
(* selectedIndex valid for it                                               *)

InitWindow ==
    /\ PickerIdle
    /\ worktrees = << >> /\ suggestions = << >>
    /\ stdinIsTTY = FALSE /\ stdoutIsTTY = FALSE /\ hasSetRawMode = FALSE
    /\ isRaw = FALSE
    /\ startRaw = isRaw
    /\ winTotal \in 0..MaxTotal
    /\ winSelected \in (IF winTotal = 0 THEN { -1 } ELSE 0..(winTotal - 1))
    /\ winResult = NoWindow
    /\ GhIdle
    /\ SuggestIdle

ComputeWindow ==
    /\ winResult = NoWindow
    /\ winResult' = computeVisibleWindow(winTotal, winSelected)
    /\ UNCHANGED << pickerVars, worktrees, suggestions, stdinIsTTY, stdoutIsTTY,
                    hasSetRawMode, startRaw, winTotal, winSelected, ghVars,
                    suggestVars >>

NextWindow == ComputeWindow

SpecWindow == InitWindow /\ [][NextWindow]_vars

TypeOK ==
    /\ pc \in { "idle", "active", "fallback", "done", "threw" }
    /\ selectionIndex \in -1..14
    /\ delivered \in 0..1

-----------------------------------------------------------------------------
(* The GitHub CLI state machines: isGhInstalled on its own, and            *)
(* resolveWorktreeSuggestions                                               *)

PickerUntouched ==
    UNCHANGED << pickerVars, worktrees, suggestions, stdinIsTTY, stdoutIsTTY,
                 hasSetRawMode, startRaw, windowVars >>

\* the state of the gh variables after one isGhInstalled({ cwd }) call
CallIsGhInstalled(cwd, call) ==
    /\ ghAvailabilityState' = call.state
    /\ ghProbes' = ghProbes + (IF call.probed THEN 1 ELSE 0)
    /\ ghFirst' = IF call.probed /\ ghProbes = 0 THEN ghEnv ELSE ghFirst
    /\ ghCalls' = ghCalls + 1
    /\ ghReturned' = Append(ghReturned, call.returns)
    /\ ghCwd' = cwd
    /\ ghEnv' = ghEnv

InitGh ==
    /\ PickerIdle
    /\ worktrees = << >> /\ suggestions = << >>
    /\ stdinIsTTY = FALSE /\ stdoutIsTTY = FALSE /\ hasSetRawMode = FALSE
    /\ isRaw = FALSE
    /\ startRaw = isRaw
    /\ winTotal = 0 /\ winSelected = -1 /\ winResult = NoWindow
    /\ ghEnv \in GhOutcomes
    /\ ghAvailabilityState = [checked |-> FALSE, available |-> FALSE]
    /\ ghProbes = 0
    /\ ghCalls = 0
    /\ ghReturned = << >>
    /\ ghFirst = NoProbe
    /\ ghCwd = ""
    /\ SuggestIdle

\* gh is installed, removed or broken while the process runs
GhEnvChanges(outcome) ==
    /\ outcome # ghEnv
    /\ ghEnv' = outcome
    /\ UNCHANGED << ghAvailabilityState, ghProbes, ghCalls, ghReturned, ghFirst,
                    ghCwd, suggestVars >>
    /\ PickerUntouched

\* one call of isGhInstalled({ cwd })
IsGhInstalled(cwd) ==
    /\ ghCalls < MaxGhCalls
    /\ CallIsGhInstalled(cwd, isGhInstalled(ghAvailabilityState, ghEnv))
    /\ UNCHANGED suggestVars
    /\ PickerUntouched

NextGh ==
    \/ \E outcome \in GhOutcomes : GhEnvChanges(outcome)
    \/ \E cwd \in Cwds : IsGhInstalled(cwd)

SpecGh == InitGh /\ [][NextGh]_vars

InitSuggest ==
    /\ PickerIdle
    /\ worktrees = << >> /\ suggestions = << >>
    /\ stdinIsTTY = FALSE /\ stdoutIsTTY = FALSE /\ hasSetRawMode = FALSE
    /\ isRaw = FALSE
    /\ startRaw = isRaw
    /\ winTotal = 0 /\ winSelected = -1 /\ winResult = NoWindow
    /\ ghEnv \in { GhInstalled, GhMissing }
    /\ ghAvailabilityState = [checked |-> FALSE, available |-> FALSE]
    /\ ghProbes = 0
    /\ ghCalls = 0
    /\ ghReturned = << >>
    /\ ghFirst = NoProbe
    /\ ghCwd = ""
    /\ authoredFetched \in GhResults(AuthoredPool)
    /\ assignedFetched \in GhResults(AssignedPool)
    /\ existingBranches \in SUBSET { "a", "d" }
    /\ limit \in 0..MaxLimit
    /\ resolution = NotCalled

\* resolveWorktreeSuggestions(args): the probe, the two fetches and the
\* suggestions built from them
ResolveWorktreeSuggestions ==
    /\ resolution = NotCalled
    /\ \E call \in { isGhInstalled(ghAvailabilityState, ghEnv) } :
          /\ CallIsGhInstalled("/repo", call)
          /\ resolution' = resolveWorktreeSuggestions(call.returns,
                              authoredFetched, assignedFetched,
                              existingBranches, limit)
    /\ UNCHANGED << authoredFetched, assignedFetched, existingBranches, limit >>
    /\ PickerUntouched

NextSuggest == ResolveWorktreeSuggestions

SpecSuggest == InitSuggest /\ [][NextSuggest]_vars

-----------------------------------------------------------------------------
(* Properties *)

\* pickWorktree was called on a capable terminal with something to pick
LiveSession ==
    /\ stdinIsTTY /\ stdoutIsTTY /\ hasSetRawMode
    /\ Len(worktrees) + Len(suggestions) > 0

EventsWhere(Test(_)) == { i \in DOMAIN events : Test(events[i]) }

IsShowCursor(e) == e.op = "showCursor"
IsHideCursor(e) == e.op = "hideCursor"
IsSetRawMode(e) == e.op = "setRawMode"
IsRestoreRaw(e) == e.op = "setRawMode" /\ e.by # "setup"
IsOn(e) == e.op = "on"
IsRemoveListener(e) == e.op = "removeListener"
IsResolve(e) == e.op = "resolve"

\* C1: in every state of the live picker selectionIndex is -1 exactly when
\* filteredItems is empty and is otherwise a valid index of filteredItems.
C1_SelectionInRange ==
    /\ (selectionIndex = -1) <=> (Len(filteredItems) = 0)
    /\ Len(filteredItems) > 0 =>
          (0 <= selectionIndex /\ selectionIndex < Len(filteredItems))

\* typing shrank the list below the index the selection had been moved to
C1_Witness ==
    /\ pc = "active"
    /\ lastChunk = << "f" >>
    /\ Len(filteredItems) = 2 /\ Len(allItems) = 3
    /\ selectionIndex = 1

\* C2: when the live picker has delivered its result (selection or null, by
\* the resolved, cancelled or setup-error path) the cursor is visible, raw
\* mode is what it was at the start, the listener is detached, and the
\* calls that did so precede the resolve call.
C2_RestoredBeforeResult ==
    (LiveSession /\ delivered > 0) =>
        /\ cursorVisible
        /\ isRaw = startRaw
        /\ ~listening
        /\ Len(events) > 0
        /\ EventsWhere(IsResolve) = { Len(events) }
        /\ \E i \in EventsWhere(IsShowCursor) :
              \A j \in EventsWhere(IsHideCursor) : j < i
        /\ \E i \in EventsWhere(IsSetRawMode) :
              /\ events[i].arg = startRaw
              /\ \A j \in EventsWhere(IsSetRawMode) : j <= i
        /\ \E i \in EventsWhere(IsRemoveListener) :
              \A j \in EventsWhere(IsOn) : j < i

\* a selection was delivered by a picker started in raw mode
C2_Witness ==
    /\ LiveSession /\ delivered = 1
    /\ startRaw = TRUE
    /\ result # Null
    /\ lastChunk = << CR >>

\* C3: when a step of entering Active throws, the cursor restore and the
\* raw-mode restore are each invoked exactly once, the listener is detached
\* and the picker resolves to null.
C3_SetupFaultCleansUp ==
    (failure \in { SetupSteps[i] : i \in DOMAIN SetupSteps }) =>
        /\ pc = "done" /\ delivered = 1 /\ result = Null
        /\ Cardinality(EventsWhere(IsShowCursor)) = 1
        /\ Cardinality(EventsWhere(IsRestoreRaw)) = 1
        /\ \A i \in EventsWhere(IsRestoreRaw) : events[i].arg = startRaw
        /\ Cardinality(EventsWhere(IsRemoveListener)) = 1
        /\ cursorVisible /\ isRaw = startRaw /\ ~listening

\* setRawMode(true) threw
C3_Witness ==
    /\ failure = "setRawMode"
    /\ pc = "done"
    /\ events # << >>

\* C4: after any picker-level failure, a failure inside the keystroke
\* handler included, the caller has a null result and raw mode and cursor
\* visibility are restored.
C4_FailureReturnsNull ==
    failure # "none" =>
        /\ pc = "done" /\ delivered = 1 /\ result = Null
        /\ cursorVisible
        /\ isRaw = startRaw

\* C5: from every Active state a chunk that is exactly Ctrl-C or exactly
\* Escape is accepted and moves the picker to Cancelled in that step, the
\* caller receiving null.
C5_CancelKeys ==
    /\ [](pc = "active" => (ENABLED OnData(<< ETX >>) /\ ENABLED OnData(<< ESC >>)))
    /\ [][(pc = "active" /\ lastChunk' \in { << ETX >>, << ESC >> }) =>
            (pc' = "done" /\ result' = Null /\ delivered' = delivered + 1)]_vars

\* Escape cancelled a picker whose query was typed and selection moved
C5_Witness ==
    /\ pc = "done"
    /\ lastChunk = << ESC >>
    /\ result = Null
    /\ searchQuery # << >>
    /\ selectionIndex > 0

\* the record r is one of the records passed to pickWorktree, of that kind
IsInputRecord(kind, r) ==
    \/ kind = "worktree" /\ \E i \in DOMAIN worktrees : worktrees[i] = r
    \/ kind = "suggestion" /\ \E i \in DOMAIN suggestions : suggestions[i] = r

\* C6: Enter resolves exactly when filteredItems is non-empty, to the tagged
\* selection of filteredItems[selectionIndex] carrying the record passed in;
\* with an empty filteredItems it changes nothing and renders nothing.
C6_Enter ==
    [][(pc = "active" /\ lastChunk' \in { << CR >>, << LF >> }) =>
          IF Len(filteredItems) > 0
          THEN /\ pc' = "done"
               /\ delivered' = delivered + 1
               /\ result'.kind = filteredItems[selectionIndex + 1].kind
               /\ result'.ref = filteredItems[selectionIndex + 1].ref
               /\ IsInputRecord(result'.kind, result'.ref)
          ELSE /\ pc' = "active"
               /\ renders' = 0
               /\ UNCHANGED << searchQuery, filteredItems, selectionIndex,
                               lastRenderLineCount, result, delivered, isRaw,
                               cursorVisible, listening, events >>]_vars

\* Enter resolved to a suggestion that was not the first item
C6_Witness ==
    /\ pc = "done"
    /\ lastChunk = << CR >>
    /\ result # Null
    /\ result.kind = "suggestion"
    /\ selectionIndex = 1

\* C7: without a TTY on stdin or stdout, or without setRawMode, pickWorktree
\* makes no call on raw mode, cursor or listener, and hands the static
\* prompt all worktrees in input order followed by all suggestions in input
\* order.
C7_FallbackTouchesNothing ==
    (~stdinIsTTY \/ ~stdoutIsTTY \/ ~hasSetRawMode) =>
        /\ events = << >>
        /\ isRaw = startRaw /\ cursorVisible /\ ~listening
        /\ pc \in { "idle", "fallback", "done" }
        /\ (pc # "idle" /\ Len(worktrees) + Len(suggestions) > 0) =>
              /\ Len(choiceList) = Len(worktrees) + Len(suggestions)
              /\ \A i \in DOMAIN worktrees :
                    choiceList[i].value = [kind |-> "worktree", ref |-> worktrees[i]]
              /\ \A i \in DOMAIN suggestions :
                    choiceList[Len(worktrees) + i].value =
                        [kind |-> "suggestion", ref |-> suggestions[i]]

\* the static prompt is up on a TTY whose stdin has no setRawMode
C7_Witness ==
    /\ pc = "fallback"
    /\ stdinIsTTY /\ stdoutIsTTY /\ ~hasSetRawMode
    /\ Len(worktrees) > 0 /\ Len(suggestions) > 0

\* C8: whenever the query is empty or only whitespace, filteredItems is
\* allItems, same items in the same order.
C8_BlankQueryShowsAll ==
    (\A i \in DOMAIN searchQuery : searchQuery[i] = " ") =>
        filteredItems = allItems

\* a whitespace-only query over a list the matcher would reorder
C8_Witness ==
    /\ pc = "active"
    /\ searchQuery = << " ", " " >>
    /\ Len(allItems) = 2
    /\ fuzzysortGo(<< "f" >>, allItems) # allItems

\* C9: with L items filtered, Up goes from 0 to L-1 and otherwise back by
\* one, Down goes from L-1 to 0 and otherwise forward by one.
C9_ArrowsWrap ==
    [][(pc = "active" /\ Len(filteredItems) > 0) =>
          /\ (lastChunk' \in { << ESC, "[", "A" >>, << ESC, "O", "A" >> }) =>
                selectionIndex' = IF selectionIndex = 0
                                  THEN Len(filteredItems) - 1
                                  ELSE selectionIndex - 1
          /\ (lastChunk' \in { << ESC, "[", "B" >>, << ESC, "O", "B" >> }) =>
                selectionIndex' = IF selectionIndex = Len(filteredItems) - 1
                                  THEN 0
                                  ELSE selectionIndex + 1]_vars

\* Up wrapped from the first to the last of two items
C9_Witness ==
    /\ pc = "active"
    /\ lastChunk = << ESC, "[", "A" >>
    /\ Len(filteredItems) = 2
    /\ selectionIndex = 1

\* C10: the visible window is [0, total) up to 12 items and otherwise
\* start = max(0, selectedIndex - 6) pulled back to total - 12 at the right
\* edge, end = min(start + 12, total); always 0 <= start <= end <= total and
\* end - start = min(total, 12); (20, 15), (5, 2), (0, -1) give {8, 20},
\* {0, 5}, {0, 0}.
C10_VisibleWindow ==
    winResult # NoWindow =>
        LET centred == IF winSelected - 6 > 0 THEN winSelected - 6 ELSE 0
            start == IF centred + 12 > winTotal THEN winTotal - 12 ELSE centred
        IN  /\ winTotal <= 12 => winResult = [start |-> 0, end |-> winTotal]
            /\ winTotal > 12 =>
                  /\ winResult.start = start
                  /\ winResult.end = (IF start + 12 < winTotal THEN start + 12 ELSE winTotal)
            /\ 0 <= winResult.start
            /\ winResult.start <= winResult.end
            /\ winResult.end <= winTotal
            /\ winResult.end - winResult.start = (IF winTotal < 12 THEN winTotal ELSE 12)
            /\ (winTotal = 20 /\ winSelected = 15) => winResult = [start |-> 8, end |-> 20]
            /\ (winTotal = 5 /\ winSelected = 2) => winResult = [start |-> 0, end |-> 5]
            /\ (winTotal = 0 /\ winSelected = -1) => winResult = [start |-> 0, end |-> 0]

\* the window of 20 items with item 15 selected was computed
C10_Witness ==
    /\ winTotal = 20 /\ winSelected = 15
    /\ winResult = [start |-> 8, end |-> 20]

\* C11: every render erases as many lines as the render before it emitted,
\* the first render erases nothing, and after a render lastRenderLineCount
\* is the number of lines that render emitted (and only those lines are on
\* the screen).
C11_RedrawAccounting ==
    [][renders' = 1 =>
          /\ erased' = emitted
          /\ pc = "idle" => erased' = 0
          /\ lastRenderLineCount' = emitted'
          /\ emitted' > 0
          /\ frameLines' = emitted']_vars

\* a render replaced a frame of a different height
C11_Witness ==
    /\ pc = "active"
    /\ renders = 1
    /\ erased > 0
    /\ erased # emitted

\* the picker item of the feature-x worktree
FeatureXItem == WorktreeItem(Wt(Str_featurex))

\* C12: whenever filteredItems has a single item selectionIndex is 0 and
\* Enter resolves to that item; with worktrees main, feature-x, fix-y the
\* query 'fe' leaves [feature-x] with index 0 and Enter resolves to the
\* feature-x worktree.
C12_NarrowToOne ==
    /\ [](pc = "active" =>
            /\ Len(filteredItems) = 1 => selectionIndex = 0
            /\ (worktrees = << Wt(Str_main), Wt(Str_featurex), Wt(Str_fixy) >>
                /\ suggestions = << >> /\ searchQuery = << "f", "e" >>) =>
                    (filteredItems = << FeatureXItem >> /\ selectionIndex = 0))
    /\ [][(pc = "active" /\ Len(filteredItems) = 1
           /\ lastChunk' \in { << CR >>, << LF >> }) =>
            /\ pc' = "done"
            /\ result' = [kind |-> filteredItems[1].kind, ref |-> filteredItems[1].ref]
            /\ (searchQuery = << "f", "e" >> /\ Len(worktrees) = 3) =>
                  result' = [kind |-> "worktree", ref |-> Wt(Str_featurex)]]_vars

\* 'fe' was typed over main, feature-x, fix-y and Enter resolved
C12_Witness ==
    /\ pc = "done"
    /\ lastChunk = << CR >>
    /\ searchQuery = << "f", "e" >>
    /\ Len(worktrees) = 3
    /\ result = [kind |-> "worktree", ref |-> Wt(Str_featurex)]

\* the searchText of a suggestion, absent title and url giving no text
ExpectedSearchText(sg) ==
    sg.branch \o << " " >>
        \o (IF sg.title = Undefined THEN << >> ELSE sg.title)
        \o << " ", "#" >> \o NumberToString(sg.number) \o << " " >>
        \o (IF sg.url = Undefined THEN << >> ELSE sg.url)

\* C13: the picker's item list is the worktrees in input order followed by
\* the suggestions in input order, one item each, of the matching kind, and
\* a suggestion's searchText has the empty string for an absent title or
\* url.
C13_ItemsInInputOrder ==
    (LiveSession /\ pc # "idle") =>
        /\ Len(allItems) = Len(worktrees) + Len(suggestions)
        /\ \A i \in DOMAIN worktrees :
              /\ allItems[i].kind = "worktree"
              /\ allItems[i].ref = worktrees[i]
              /\ allItems[i].branch = worktrees[i].branch
              /\ allItems[i].searchText =
                    worktrees[i].branch \o << " " >> \o worktrees[i].path
        /\ \A i \in DOMAIN suggestions :
              /\ allItems[Len(worktrees) + i].kind = "suggestion"
              /\ allItems[Len(worktrees) + i].ref = suggestions[i]
              /\ allItems[Len(worktrees) + i].branch = suggestions[i].branch
              /\ allItems[Len(worktrees) + i].searchText =
                    ExpectedSearchText(suggestions[i])

\* the items of two suggestions, one without a title, were built
C13_Witness ==
    /\ pc = "active"
    /\ Len(suggestions) = 2
    /\ suggestions[2].title = Undefined
    /\ Len(allItems) = 2

\* the chunks onData compares against as a whole
RecognizedChunks ==
    { << ETX >>, << ESC >>, << CR >>, << LF >>,
      << DEL >>, << BS >>, << ESC, "[", "3", "~" >>,
      << ESC, "[", "A" >>, << ESC, "O", "A" >>,
      << ESC, "[", "B" >>, << ESC, "O", "B" >>,
      << ESC, "[", "5", "~" >>, << ESC, "[", "6", "~" >> }

AllPrintable(chunk) == \A i \in DOMAIN chunk : chunk[i] \in Printable
NonePrintable(chunk) == \A i \in DOMAIN chunk : chunk[i] \notin Printable

\* the step handled a chunk without any effect on the picker
ChunkIgnored ==
    /\ UNCHANGED << searchQuery, filteredItems, selectionIndex,
                    lastRenderLineCount, result, delivered >>
    /\ renders' = 0
    /\ pc' = "active"
    /\ failure' = "none"

\* C14 as stated: a chunk that is neither one recognized key sequence nor
\* purely printable text (unknown escape sequence, lone control byte,
\* control byte mixed with other bytes) is ignored.
C14_UnrecognizedIgnored ==
    [][(pc = "active" /\ lastChunk' \notin RecognizedChunks
        /\ ~AllPrintable(lastChunk')) => ChunkIgnored]_vars

\* C14 amended: a chunk that is not one recognized key sequence and that
\* starts with ESC or has no character in space..tilde is ignored: query,
\* filteredItems, selectionIndex and lastRenderLineCount are unchanged, no
\* render is issued and no error is surfaced.
C14_EscapeOrControlOnlyIgnored ==
    [][(pc = "active" /\ lastChunk' \notin RecognizedChunks
        /\ (lastChunk'[1] = ESC \/ NonePrintable(lastChunk'))) => ChunkIgnored]_vars

\* an ESC-prefixed chunk with a printable character arrived at a typed query
C14_Witness ==
    /\ pc = "active"
    /\ lastChunk = << ESC, "f" >>
    /\ searchQuery # << >>
    /\ renders = 0

\* C15: whenever the live picker delivers a result after a frame has been
\* written (Enter, Escape / Ctrl-C, or the setup error path) the lines of
\* that frame have been erased: none remains on the screen.
C15_FrameErasedOnExit ==
    (LiveSession /\ delivered > 0 /\ emitted > 0) => frameLines = 0

\* C16: after a query edit the new selectionIndex is -1 for an empty new
\* list, 0 if the old index was -1, length-1 if the old index is at or past
\* the new length, and otherwise the old index.
C16_ClampOnEdit ==
    [][(pc = "active" /\ searchQuery' # searchQuery) =>
          selectionIndex' =
             IF Len(filteredItems') = 0 THEN -1
             ELSE IF selectionIndex = -1 THEN 0
             ELSE IF selectionIndex >= Len(filteredItems') THEN Len(filteredItems') - 1
             ELSE selectionIndex]_vars

\* Backspace widened the list from two to three items and index 1 stayed
C16_Witness ==
    /\ pc = "active"
    /\ lastChunk = << DEL >>
    /\ searchQuery = << >>
    /\ Len(filteredItems) = 3
    /\ selectionIndex = 1

\* C17: with L items filtered, Page-down sets selectionIndex to
\* (selectionIndex + 12) mod L and Page-up to (selectionIndex - 12) mod L,
\* a valid index; when 12 is a multiple of L the selection stays.
C17_PageKeys ==
    [][(pc = "active" /\ Len(filteredItems) > 0) =>
          LET L == Len(filteredItems) IN
          /\ lastChunk' = << ESC, "[", "6", "~" >> =>
                /\ selectionIndex' = (selectionIndex + 12) % L
                /\ selectionIndex' \in 0..(L - 1)
                /\ 12 % L = 0 => selectionIndex' = selectionIndex
          /\ lastChunk' = << ESC, "[", "5", "~" >> =>
                /\ selectionIndex' = (selectionIndex - 12) % L
                /\ selectionIndex' \in 0..(L - 1)
                /\ 12 % L = 0 => selectionIndex' = selectionIndex]_vars

\* Page-down over thirteen items moved the selection from 0 to 12
C17_Witness ==
    /\ pc = "active"
    /\ lastChunk = << ESC, "[", "6", "~" >>
    /\ Len(filteredItems) = 13
    /\ selectionIndex = 12

\* C18: Backspace or Delete on a non-empty query removes its last
\* character, refilters and renders once; on an empty query it changes
\* nothing and renders nothing.
C18_Backspace ==
    [][(pc = "active"
        /\ lastChunk' \in { << DEL >>, << BS >>, << ESC, "[", "3", "~" >> }) =>
          IF Len(searchQuery) > 0
          THEN /\ searchQuery' = SubSeq(searchQuery, 1, Len(searchQuery) - 1)
               /\ filteredItems' = FilterFor(searchQuery', allItems)
               /\ renders' = 1
               /\ pc' = "active"
          ELSE /\ UNCHANGED << searchQuery, filteredItems, selectionIndex,
                               lastRenderLineCount >>
               /\ renders' = 0
               /\ pc' = "active"]_vars

\* Delete took the last character off a two-character query
C18_Witness ==
    /\ pc = "active"
    /\ lastChunk = << ESC, "[", "3", "~" >>
    /\ searchQuery = << "f" >>
    /\ renders = 1
    /\ Len(filteredItems) = 2

\* the characters of chunk in space..tilde, in order
RECURSIVE InRange(_)
InRange(chunk) ==
    IF chunk = << >> THEN << >>
    ELSE (IF Head(chunk) \in Printable THEN << Head(chunk) >> ELSE << >>)
         \o InRange(Tail(chunk))

C20_FilterInSync ==
    /\ filteredItems =
          (IF \A i \in DOMAIN searchQuery : searchQuery[i] = " "
           THEN allItems ELSE fuzzysortGo(searchQuery, allItems))
    /\ \A i \in DOMAIN filteredItems :
          \E j \in DOMAIN allItems : filteredItems[i] = allItems[j]

\* Backspace left a query that filters out part of the list
C20_Witness ==
    /\ pc = "active"
    /\ lastChunk = << BS >>
    /\ searchQuery = << "e" >>
    /\ Len(filteredItems) > 0
    /\ Len(filteredItems) < Len(allItems)

\* C21: a chunk is handled in one step that makes at most one render call;
\* a chunk that changes the query or the selection makes exactly one; and
\* the frame that call draws shows the query, the list and the selection of
\* the step's final state.
C21_OneRenderOfFinalState ==
    [][pc = "active" =>
          /\ renders' \in { 0, 1 }
          /\ (searchQuery' # searchQuery \/ selectionIndex' # selectionIndex)
                => renders' = 1
          /\ renders' = 1 =>
                /\ drawn' # NoFrame
                /\ drawn'.searchQuery = searchQuery'
                /\ drawn'.filteredItems = filteredItems'
                /\ drawn'.selectionIndex = selectionIndex'
          /\ renders' = 0 => drawn' = drawn]_vars

\* typing narrowed a three-item list to two and moved the selection, and
\* the frame shows the narrowed list
C21_Witness ==
    /\ pc = "active"
    /\ renders = 1
    /\ lastChunk = << "f", "e" >>
    /\ Len(allItems) = 3
    /\ drawn # NoFrame
    /\ drawn.filteredItems = filteredItems
    /\ filteredItems # before.filteredItems

SetupRank(op) ==
    CASE op = "setRawMode" -> 1
      [] op = "hideCursor" -> 2
      [] op = "renderWrite" -> 3
      [] op = "on" -> 4
      [] OTHER -> 0

SetupCalls(op) == { i \in DOMAIN events : events[i].by = "setup" /\ events[i].op = op }

\* C22: the setup calls occur in the order raw mode on, cursor hidden,
\* first frame written, listener attached, the listener being attached only
\* after the other three; the first frame shows the empty query, all items
\* and selection 0; no chunk is handled before that frame exists.
C22_SetupOrder ==
    /\ \A i, j \in DOMAIN events :
          (/\ events[i].by = "setup" /\ events[j].by = "setup"
           /\ SetupRank(events[i].op) > 0
           /\ SetupRank(events[i].op) < SetupRank(events[j].op)) => i < j
    /\ SetupCalls("on") # { } =>
          /\ SetupCalls("renderWrite") # { }
          /\ SetupCalls("hideCursor") # { }
          /\ \E i \in SetupCalls("setRawMode") : events[i].arg = TRUE
    /\ (pc = "active" /\ lastChunk = << >>) =>
          /\ isRaw /\ ~cursorVisible /\ listening
          /\ drawn # NoFrame
          /\ drawn.searchQuery = << >>
          /\ drawn.filteredItems = allItems
          /\ drawn.selectionIndex = 0
          /\ filteredItems = allItems /\ selectionIndex = 0
    /\ lastChunk # << >> => (SetupCalls("renderWrite") # { } /\ drawn # NoFrame)

\* the picker has just become active over three items, no chunk handled yet
C22_Witness ==
    /\ pc = "active"
    /\ lastChunk = << >>
    /\ listening
    /\ Len(allItems) = 3
    /\ emitted > 0

\* C23: once the result is delivered no chunk changes the query, the list
\* or the selection, draws a frame or delivers again; a finished session
\* has delivered exactly once.
C23_Absorbing ==
    /\ [](delivered <= 1 /\ (pc = "done" <=> delivered = 1))
    /\ [][pc = "done" =>
            UNCHANGED << pc, searchQuery, filteredItems, selectionIndex,
                         lastRenderLineCount, result, delivered, renders,
                         drawn, emitted, lastChunk >>]_vars

\* a chunk arrived after a selection had been delivered
C23_Witness ==
    /\ pc = "done"
    /\ LiveSession
    /\ result # Null
    /\ dropped > 0
    /\ delivered = 1

\* C24: the only step out of an active picker is the handling of a chunk;
\* it ends the session with null only for Ctrl-C or Escape and with a
\* selection only for Enter on a valid selection; every other chunk leaves
\* the picker active.
C24_LeavesOnlyOnKey ==
    [][pc = "active" =>
          /\ lastChunk' # << >>
          /\ pc' \in { "active", "done" }
          /\ pc' = "done" =>
                /\ delivered' = delivered + 1
                /\ \/ /\ result' = Null
                      /\ lastChunk' \in { << ETX >>, << ESC >> }
                   \/ /\ result' # Null
                      /\ lastChunk' \in { << CR >>, << LF >> }
                      /\ selectionIndex \in 0..(Len(filteredItems) - 1)
                      /\ result' = SelectionOf(filteredItems[selectionIndex + 1])
          /\ lastChunk' \notin { << ETX >>, << ESC >>, << CR >>, << LF >> } =>
                (pc' = "active" /\ delivered' = delivered /\ listening')]_vars

\* still active after typing two characters and an ignored escape sequence
C24_Witness ==
    /\ pc = "active"
    /\ searchQuery = << "f", "e" >>
    /\ lastChunk = << ESC, "[", "Z" >>
    /\ delivered = 0

\* C25: allItems is the same throughout a session; Up, Down, Page-up and
\* Page-down leave the query and filteredItems unchanged, and with an empty
\* filteredItems change nothing and render nothing.
C25_NavigationFrame ==
    /\ [](pc \in { "active", "done" } /\ events # << >> =>
            allItems = buildPickerItems(worktrees, suggestions))
    /\ [][pc = "active" => allItems' = allItems]_vars
    /\ [][(pc = "active"
           /\ lastChunk' \in { << ESC, "[", "A" >>, << ESC, "O", "A" >>,
                               << ESC, "[", "B" >>, << ESC, "O", "B" >>,
                               << ESC, "[", "5", "~" >>, << ESC, "[", "6", "~" >> }) =>
            /\ UNCHANGED << searchQuery, filteredItems >>
            /\ pc' = "active"
            /\ Len(filteredItems) = 0 =>
                  /\ UNCHANGED << selectionIndex, lastRenderLineCount, drawn,
                                  emitted >>
                  /\ renders' = 0]_vars

\* Down was pressed while the query matched nothing
C25_Witness ==
    /\ pc = "active"
    /\ lastChunk = << ESC, "O", "B" >>
    /\ searchQuery # << >>
    /\ Len(filteredItems) = 0
    /\ renders = 0

\* C28: every frame drawn from a non-empty filteredItems has the selected
\* index inside its window, and exactly one drawn item carries the pointer.
C28_SelectionVisible ==
    (drawn # NoFrame /\ Len(drawn.filteredItems) > 0) =>
        /\ drawn.start <= drawn.selectionIndex
        /\ drawn.selectionIndex < drawn.end
        /\ Cardinality(drawn.pointers) = 1

\* thirteen items drawn with the window scrolled off the top
C28_Witness ==
    /\ pc = "active"
    /\ drawn # NoFrame
    /\ Len(drawn.filteredItems) = 13
    /\ drawn.start > 0
    /\ drawn.selectionIndex = 12

\* C29: a chunk of more than one character that holds Ctrl-C, Escape, CR or
\* LF neither cancels nor resolves: the picker stays active and delivers
\* nothing.
C29_ControlByteNotAlone ==
    [][(pc = "active" /\ Len(lastChunk') > 1
        /\ \E i \in DOMAIN lastChunk' : lastChunk'[i] \in { ETX, ESC, CR, LF }) =>
          /\ pc' = "active"
          /\ listening'
          /\ UNCHANGED << delivered, result >>]_vars

\* a chunk of a letter and a carriage return was handled: the letter is in
\* the query and nothing was delivered
C29_Witness ==
    /\ pc = "active"
    /\ lastChunk = << "f", CR >>
    /\ searchQuery = << "f" >>
    /\ delivered = 0

\* C30: Backspace right after one typed printable character gives back the
\* query and filteredItems of before the character; selectionIndex is valid
\* for that list.
C30_TypeThenBackspace ==
    [][(pc = "active" /\ Len(lastChunk) = 1 /\ lastChunk[1] \in Printable
        /\ lastChunk' \in { << DEL >>, << BS >>, << ESC, "[", "3", "~" >> }) =>
          /\ searchQuery' = before.searchQuery
          /\ filteredItems' = before.filteredItems
          /\ (selectionIndex' = -1) <=> (Len(filteredItems') = 0)
          /\ selectionIndex' \in -1..(Len(filteredItems') - 1)]_vars

\* 'z' matched nothing; Backspace brought back the full list with the
\* selection on its first item
C30_Witness ==
    /\ pc = "active"
    /\ lastChunk = << BS >>
    /\ before.searchQuery = << "z" >>
    /\ Len(before.filteredItems) = 0
    /\ searchQuery = << >>
    /\ filteredItems = allItems
    /\ selectionIndex = 0

\* C26: the probe is spawned at most once per process; after the first
\* isGhInstalled call, whatever the probe did, every call returns what the
\* first call returned -- the availability seen by that probe -- without
\* spawning gh again, even when gh has since appeared or disappeared.
C26_ProbedOnce ==
    /\ [](/\ ghProbes <= 1
          /\ ghCalls > 0 =>
                /\ ghProbes = 1
                /\ ghAvailabilityState.checked
                /\ \A i \in DOMAIN ghReturned :
                      /\ ghReturned[i] = ghReturned[1]
                      /\ ghReturned[i] =
                            (~ghFirst.threw /\ ghFirst.status = 0 /\ ~ghFirst.error))
    /\ [][ghCalls > 0 => (ghProbes' = ghProbes /\ ghFirst' = ghFirst)]_vars

\* gh was missing at the first call and is installed now: the second call
\* still answered false
C26_Witness ==
    /\ ghCalls >= 2
    /\ ghFirst = GhMissing
    /\ ghEnv = GhInstalled
    /\ ghReturned[ghCalls] = FALSE
    /\ ghProbes = 1

\* C27: the suggestions handed on never hold a branch of existingBranches
\* nor one branch twice, and a branch that has an authored pull request is
\* never suggested as the Copilot-assigned one.
C27_SuggestionsDistinct ==
    LET sgs == resolution.suggestions IN
    /\ \A i \in DOMAIN sgs : sgs[i].branch \notin existingBranches
    /\ \A i, j \in DOMAIN sgs : sgs[i].branch = sgs[j].branch => i = j
    /\ \A i \in DOMAIN sgs :
          (authoredFetched.ok
           /\ \E k \in DOMAIN authoredFetched.prs :
                 authoredFetched.prs[k].headRefName = sgs[i].branch) =>
             /\ ~sgs[i].copilotAssigned
             /\ \E k \in DOMAIN authoredFetched.prs :
                   /\ authoredFetched.prs[k].headRefName = sgs[i].branch
                   /\ authoredFetched.prs[k].number = sgs[i].number
    /\ resolution.status = "ok" <=> Len(sgs) > 0

\* two authored pull requests on branch a, a Copilot one on a as well and
\* one on the existing branch d: one suggestion, the first authored one
C27_Witness ==
    /\ resolution.status = "ok"
    /\ authoredFetched = GhList(<< Pr(1, "a", 5, "octocat"), Pr(3, "a", 9, "octocat") >>)
    /\ assignedFetched = GhList(<< Pr(5, "a", 7, "Copilot-SWE-Agent"),
                                   Pr(6, "d", 3, "Copilot-SWE-Agent") >>)
    /\ existingBranches = { "d" }
    /\ Len(resolution.suggestions) = 1
    /\ resolution.suggestions[1].number = 1

====
